---- MODULE Spec2Model ----
(***************************************************************************)
(* Model of the Dart source-feature extractor of the flutter-unit-test MCP *)
(* server (src/flutter-unit-test/flutter_unit_test/server.py).             *)
(*                                                                         *)
(* Source text is a TLA+ string.  The regular expressions of the source    *)
(* are syntax trees, and Match is a backtracking matcher with the priority *)
(* rules of Python's re module (greedy quantifiers, ordered alternation,   *)
(* leftmost match, non-overlapping scan in findall).                       *)
(***************************************************************************)
EXTENDS Integers, Sequences, FiniteSets, TLC

VARIABLES text, info, exc, pc, calls, gen, sentry

vars == <<text, info, exc, pc, calls, gen, sentry>>

-----------------------------------------------------------------------------
(* Bounds of the explored input space. *)

MaxFrags == 3

\* number of extraction calls in flight at once
NumCalls == 2

-----------------------------------------------------------------------------
(* Strings. *)

CharAt(s, i) == SubSeq(s, i, i)

StartsAt(s, i, lit) ==
    /\ i >= 1
    /\ i + Len(lit) - 1 <= Len(s)
    /\ SubSeq(s, i, i + Len(lit) - 1) = lit

\* str.startswith
startswith(s, prefix) == StartsAt(s, 1, prefix)

\* the 'in' operator on two strings
Contains(s, sub) == \E i \in 1..(Len(s) + 1) : StartsAt(s, i, sub)

\* str.find from position i (1-based); 0 when absent
RECURSIVE FindFrom(_, _, _)
FindFrom(s, sub, i) ==
    IF i + Len(sub) - 1 > Len(s) THEN 0
    ELSE IF StartsAt(s, i, sub) THEN i
    ELSE FindFrom(s, sub, i + 1)

\* str.split(sep) for a non-empty separator: left to right, non-overlapping
RECURSIVE split(_, _)
split(s, sep) ==
    LET k == FindFrom(s, sep, 1) IN
    IF k = 0 THEN <<s>>
    ELSE <<SubSeq(s, 1, k - 1)>> \o split(SubSeq(s, k + Len(sep), Len(s)), sep)

\* concatenation of a sequence of strings
RECURSIVE Concat(_)
Concat(fs) == IF Len(fs) = 0 THEN "" ELSE Head(fs) \o Concat(Tail(fs))

-----------------------------------------------------------------------------
(* Character classes of Python's re for str patterns (ASCII part). *)

WordChars ==
    {"a","b","c","d","e","f","g","h","i","j","k","l","m",
     "n","o","p","q","r","s","t","u","v","w","x","y","z",
     "A","B","C","D","E","F","G","H","I","J","K","L","M",
     "N","O","P","Q","R","S","T","U","V","W","X","Y","Z",
     "0","1","2","3","4","5","6","7","8","9","_"}

SpaceChars == {" ", "\t", "\n", "\r", "\f"}

\* a class is: word part, space part, extra characters, negation
ClsW       == [w |-> TRUE,  s |-> FALSE, chars |-> {}, neg |-> FALSE]
ClsS       == [w |-> FALSE, s |-> TRUE,  chars |-> {}, neg |-> FALSE]
ClsNotS    == [w |-> FALSE, s |-> TRUE,  chars |-> {}, neg |-> TRUE]
AnyOf(cs)  == [w |-> FALSE, s |-> FALSE, chars |-> cs, neg |-> FALSE]
NoneOf(cs) == [w |-> FALSE, s |-> FALSE, chars |-> cs, neg |-> TRUE]

InClass(c, cls) ==
    LET pos == \/ cls.w /\ c \in WordChars
               \/ cls.s /\ c \in SpaceChars
               \/ c \in cls.chars
    IN IF cls.neg THEN ~pos ELSE pos

-----------------------------------------------------------------------------
(* Regular expression syntax trees. *)

Lit(str)  == [t |-> "lit", s |-> str]
Cls(c)    == [t |-> "cls", c |-> c]
Cat(rs)   == [t |-> "cat", rs |-> rs]
Alt(rs)   == [t |-> "alt", rs |-> rs]
Opt(r)    == [t |-> "opt", r |-> r]
Star(r)   == [t |-> "star", r |-> r]
Plus(r)   == [t |-> "plus", r |-> r]
Grp(r)    == [t |-> "grp", r |-> r]
EndGrp(i) == [t |-> "end", from |-> i]

NoMatch == [ok |-> FALSE, end |-> 0, cap |-> ""]

\* the length of the longest run of characters of class c that starts at i
RunLen(s, i, c) ==
    IF i > Len(s) \/ ~InClass(CharAt(s, i), c) THEN 0
    ELSE LET stops == {j \in i..Len(s) : ~InClass(CharAt(s, j), c)} IN
         IF stops = {} THEN Len(s) - i + 1
         ELSE (CHOOSE j \in stops : \A k \in stops : j <= k) - i

(* Match(rs, s, i, cap): match the sequence rs of nodes against s from     *)
(* position i; cap is the text of group 1 so far.  The result is the first *)
(* success in backtracking order: a quantifier takes as many repetitions   *)
(* as the rest of the pattern allows, an alternation its first branch that *)
(* the rest of the pattern allows.                                         *)
RECURSIVE Match(_, _, _, _)
Match(rs, s, i, cap) ==
    CASE Len(rs) = 0 -> [ok |-> TRUE, end |-> i, cap |-> cap]
      [] rs[1].t = "lit" ->
           IF StartsAt(s, i, rs[1].s)
           THEN Match(Tail(rs), s, i + Len(rs[1].s), cap)
           ELSE NoMatch
      [] rs[1].t = "cls" ->
           IF i <= Len(s) /\ InClass(CharAt(s, i), rs[1].c)
           THEN Match(Tail(rs), s, i + 1, cap)
           ELSE NoMatch
      [] rs[1].t = "cat" -> Match(rs[1].rs \o Tail(rs), s, i, cap)
      [] rs[1].t = "alt" ->
           LET res == [k \in 1..Len(rs[1].rs) |->
                          Match(<<rs[1].rs[k]>> \o Tail(rs), s, i, cap)]
               good == {k \in DOMAIN res : res[k].ok}
           IN IF good = {} THEN NoMatch
              ELSE res[CHOOSE k \in good : \A m \in good : k <= m]
      [] rs[1].t = "opt" ->
           LET a == Match(<<rs[1].r>> \o Tail(rs), s, i, cap) IN
           IF a.ok THEN a ELSE Match(Tail(rs), s, i, cap)
      \* a repeated single-character class: the longest run, shortened
      \* until the rest matches
      [] rs[1].t \in {"star", "plus"} /\ rs[1].r.t = "cls" ->
           LET n    == RunLen(s, i, rs[1].r.c)
               lo   == IF rs[1].t = "plus" THEN 1 ELSE 0
               res  == [k \in lo..n |-> Match(Tail(rs), s, i + k, cap)]
               good == {k \in lo..n : res[k].ok}
           IN IF good = {} THEN NoMatch
              ELSE res[CHOOSE k \in good : \A m \in good : m <= k]
      [] rs[1].t = "star" ->
           LET a == Match(<<rs[1].r, rs[1]>> \o Tail(rs), s, i, cap) IN
           IF a.ok THEN a ELSE Match(Tail(rs), s, i, cap)
      [] rs[1].t = "plus" ->
           Match(<<rs[1].r, Star(rs[1].r)>> \o Tail(rs), s, i, cap)
      [] rs[1].t = "grp" ->
           Match(<<rs[1].r, EndGrp(i)>> \o Tail(rs), s, i, cap)
      [] rs[1].t = "end" ->
           Match(Tail(rs), s, i, SubSeq(s, rs[1].from, i - 1))

\* the least position j >= i at which at[j] is a match; 0 when there is none
NextHit(at, i) ==
    LET hits == {j \in DOMAIN at : j >= i /\ at[j].ok} IN
    IF hits = {} THEN 0
    ELSE CHOOSE j \in hits : \A k \in hits : j <= k

\* the scan of re.findall: take the leftmost match at or after i, resume at
\* its end (one further after an empty match)
RECURSIVE Scan(_, _)
Scan(at, i) ==
    LET j == NextHit(at, i) IN
    IF j = 0 THEN <<>>
    ELSE <<at[j].cap>> \o Scan(at, IF at[j].end > j THEN at[j].end ELSE j + 1)

\* re.findall for a pattern with one group: the group of every match
findall(p, s) ==
    LET at == [j \in 1..(Len(s) + 1) |-> Match(<<p>>, s, j, "")] IN
    Scan(at, 1)

-----------------------------------------------------------------------------
(* The patterns of extract_file_info. *)

W  == Cls(ClsW)
WS == Cls(ClsS)
Quote == Cls(AnyOf({"'", "\""}))

\* (?:@\w+\s+)*
Annotations == Star(Cat(<<Lit("@"), Plus(W), Plus(WS)>>))

\* (?:static\s+)?
StaticPrefix == Opt(Cat(<<Lit("static"), Plus(WS)>>))

\* (?:<[^>]+>)?
Generic == Opt(Cat(<<Lit("<"), Plus(Cls(NoneOf({">"}))), Lit(">")>>))

\* \s*\([^)]*\)\s*
Params == Cat(<<Star(WS), Lit("("), Star(Cls(NoneOf({")"}))), Lit(")"), Star(WS)>>)

\* import\s+\'([^\'"]+)\';
import_pattern_SingleQuote ==
    Cat(<<Lit("import"), Plus(WS), Lit("'"),
          Grp(Plus(Cls(NoneOf({"'", "\""})))), Lit("'"), Lit(";")>>)

\* import\s+([\'"][^\'"]+)[\'"];
import_pattern_GroupQuote ==
    Cat(<<Lit("import"), Plus(WS),
          Grp(Cat(<<Quote, Plus(Cls(NoneOf({"'", "\""})))>>)), Quote, Lit(";")>>)

\* import\s+[\'"]([^\'"]+)[\'"];
import_pattern ==
    Cat(<<Lit("import"), Plus(WS), Quote,
          Grp(Plus(Cls(NoneOf({"'", "\""})))), Quote, Lit(";")>>)

\* class\s+(\w+)(?:\s+extends|\s+implements|\s+with|\s*{)
class_pattern ==
    Cat(<<Lit("class"), Plus(WS), Grp(Plus(W)),
          Alt(<<Cat(<<Plus(WS), Lit("extends")>>),
                Cat(<<Plus(WS), Lit("implements")>>),
                Cat(<<Plus(WS), Lit("with")>>),
                Cat(<<Star(WS), Lit("{")>>)>>)>>)

exclude_keywords ==
    {"if", "else", "for", "while", "switch", "case", "return", "break", "continue"}

regular_method ==
    Cat(<<Annotations, StaticPrefix,
          Alt(<<Lit("void"), Lit("String"), Lit("int"), Lit("bool"),
                Lit("double"), Lit("num"), Lit("Future"), Lit("List"),
                Lit("Map"), Lit("Set"), Lit("Stream"), Plus(W)>>),
          Generic, Plus(WS), Grp(Plus(W)), Params,
          Opt(Cat(<<Lit("async"), Star(WS)>>)), Lit("{")>>)

\* re.escape leaves a class name unchanged: it consists of \w characters
constructor_pattern(class_name) ==
    Cat(<<Annotations,
          Opt(Cat(<<Lit("const"), Plus(WS)>>)),
          Opt(Cat(<<Lit("factory"), Plus(WS)>>)),
          Grp(Cat(<<Lit(class_name), Opt(Cat(<<Lit("."), Plus(W)>>))>>)),
          Params,
          Opt(Cat(<<Lit(":"), Star(WS),
                    Plus(Cls([w |-> TRUE, s |-> TRUE,
                              chars |-> {"(", ")", ","}, neg |-> FALSE]))>>)),
          Star(WS), Lit("{")>>)

getter_pattern ==
    Cat(<<Annotations, StaticPrefix, Cat(<<Plus(W), Generic>>),
          Plus(WS), Lit("get"), Plus(WS), Grp(Plus(W)), Star(WS),
          Alt(<<Lit("=>"), Lit("{")>>)>>)

setter_pattern ==
    Cat(<<Annotations, StaticPrefix, Lit("set"), Plus(WS), Grp(Plus(W)),
          Params, Lit("{")>>)

operator_pattern ==
    Cat(<<Annotations, Cat(<<Plus(W), Generic>>), Plus(WS), Lit("operator"),
          Plus(WS), Grp(Plus(Cls(ClsNotS))), Params, Lit("{")>>)

-----------------------------------------------------------------------------
(* extract_file_info *)

Range(q) == {q[k] : k \in 1..Len(q)}

NotPrivate(m) == ~startswith(m, "_")

\* class_matches[0]
ClassMatch_Last(class_matches) == class_matches[Len(class_matches)]

ClassMatch(class_matches) == class_matches[1]

\* if class_matches: info['class_name'] = class_matches[0]
WithClassName(inf, s) ==
    LET class_matches == findall(class_pattern, s) IN
    IF Len(class_matches) > 0
    THEN [inf EXCEPT !.class_name = ClassMatch(class_matches)]
    ELSE inf

\* the list called methods, as it stands after the keyword filter
MethodCandidates(s, class_name) ==
    LET regular  == SelectSeq(findall(regular_method, s), NotPrivate)
        ctors    == IF class_name # ""
                    THEN findall(constructor_pattern(class_name), s)
                    ELSE <<>>
        getters  == SelectSeq(findall(getter_pattern, s), NotPrivate)
        setters  == SelectSeq(findall(setter_pattern, s), NotPrivate)
        ops      == findall(operator_pattern, s)
        opnames  == [k \in 1..Len(ops) |-> "operator " \o ops[k]]
        methods  == regular \o ctors \o getters \o setters \o opnames
    IN SelectSeq(methods, LAMBDA m : m \notin exclude_keywords)

\* list(set(methods)): every element once, in an order the language does
\* not fix
list_set(S) ==
    {q \in [1..Cardinality(S) -> S] : \A x \in S : \E k \in DOMAIN q : q[k] = x}

\* ':' in imp
HasPackageMarker_Colon(imp) == Contains(imp, ":")

\* 'package:' in imp
HasPackageMarker(imp) == Contains(imp, "package:")

\* the loop without the test "if pkg not in dependencies"
RECURSIVE DependencyLoop_NoDedup(_, _)
DependencyLoop_NoDedup(imports, dependencies) ==
    IF Len(imports) = 0 THEN [raised |-> "", value |-> dependencies]
    ELSE
    LET imp == Head(imports) IN
    IF Contains(imp, "package:")
    THEN LET parts == split(imp, "package:") IN
         IF Len(parts) < 2 THEN [raised |-> "IndexError", value |-> dependencies]
         ELSE DependencyLoop_NoDedup(Tail(imports),
                 Append(dependencies, split(parts[2], "/")[1]))
    ELSE DependencyLoop_NoDedup(Tail(imports), dependencies)

\* the loop over imports; IndexError is what [1] raises on a short list
RECURSIVE DependencyLoop(_, _)
DependencyLoop(imports, dependencies) ==
    IF Len(imports) = 0 THEN [raised |-> "", value |-> dependencies]
    ELSE
    LET imp == Head(imports) IN
    IF HasPackageMarker(imp)
    THEN LET parts == split(imp, "package:") IN
         IF Len(parts) < 2 THEN [raised |-> "IndexError", value |-> dependencies]
         ELSE LET pkg == split(parts[2], "/")[1] IN
              DependencyLoop(Tail(imports),
                 IF pkg \notin Range(dependencies)
                 THEN Append(dependencies, pkg) ELSE dependencies)
    ELSE DependencyLoop(Tail(imports), dependencies)

DependenciesOf(imports) == DependencyLoop(imports, <<>>)

InitialInfo_Unknown ==
    [class_name |-> "Unknown", dependencies |-> <<>>, methods |-> <<>>, imports |-> <<>>]

InitialInfo ==
    [class_name |-> "", dependencies |-> <<>>, methods |-> <<>>, imports |-> <<>>]

\* the call with info['methods'] = methods in place of list(set(methods))
extract_file_info_NoDedup(file_content) ==
    LET imports == findall(import_pattern, file_content)
        info1   == WithClassName([InitialInfo EXCEPT !.imports = imports],
                                 file_content)
        deps    == DependenciesOf(imports)
    IN {[raised |-> deps.raised,
         value  |-> [info1 EXCEPT
                        !.methods = MethodCandidates(file_content, info1.class_name),
                        !.dependencies = deps.value]]}

\* the call with dependencies listed from a set, as methods are
extract_file_info_UnorderedDeps(file_content) ==
    LET imports == findall(import_pattern, file_content)
        info1   == WithClassName([InitialInfo EXCEPT !.imports = imports],
                                 file_content)
        methods == Range(MethodCandidates(file_content, info1.class_name))
        deps    == DependenciesOf(imports)
    IN {[raised |-> deps.raised,
         value  |-> [info1 EXCEPT !.methods = ms, !.dependencies = ds]] :
           ms \in list_set(methods), ds \in list_set(Range(deps.value))}

\* the set of outcomes the call can produce: one per order of the methods;
\* raised names the exception that ends the call, "" when it returns value
extract_file_info(file_content) ==
    LET imports == findall(import_pattern, file_content)
        info1   == WithClassName([InitialInfo EXCEPT !.imports = imports],
                                 file_content)
        methods == Range(MethodCandidates(file_content, info1.class_name))
        deps    == DependenciesOf(imports)
    IN {[raised |-> deps.raised,
         value  |-> [info1 EXCEPT !.methods = ms,
                                  !.dependencies = deps.value]] :
          ms \in list_set(methods)}

-----------------------------------------------------------------------------
(* Input texts: every concatenation of at most MaxFrags fragments of a     *)
(* family, plus the scenario texts of the specification.                   *)

FragSeqs(F) == UNION {[1..k -> F] : k \in 0..MaxFrags}

TextsOf(F) == {Concat(q) : q \in FragSeqs(F)}

ScenarioFoo ==
    "class Foo { int bar() { return 1; } get baz => 2; set qux(int v) {} operator +(Foo o) { return this; } void _hidden() {} }"

ScenarioWidget ==
    "class Widget { const Widget.named(int x) : assert(x > 0) { } }"

ScenarioAsync == "import 'dart:async';"

MethodFrags ==
    {"class _A {", " _A() {", " void _h() {", " else if (x) {",
     " int get v =>", " set w(v) {", " T operator +(o) {"}

ClassFrags ==
    {"class A {", "class\tB\nextends A {", "class _C with M{", "subclass F{",
     "class ", " G() {", " A() {", "classy H {"}

ImportFrags ==
    {"import 'package:foo/bar.dart';", "import \"package:foo/x.dart\";",
     "import 'dart:async';", "import\n\"dart:io\";", "import 'a\";",
     "import 'package:apackage:b/c';", "import '", ";x';"}

MethodInputs == TextsOf(MethodFrags) \cup {ScenarioFoo, ScenarioWidget}

ClassInputs == TextsOf(ClassFrags)

ImportInputs == TextsOf(ImportFrags) \cup {ScenarioAsync}

-----------------------------------------------------------------------------
(* The state machine: one call of extract_file_info on text. *)

\* no concurrent tool invocation in flight
NoCalls == <<>>

\* no generate_unit_test call in progress
NoGen == <<>>

\* no call of a sentry-analyzer handler in progress
NoSentry == <<>>

InitOn(inputs) ==
    /\ text \in inputs
    /\ info = InitialInfo
    /\ exc = ""
    /\ pc = "call"
    /\ calls = NoCalls
    /\ gen = NoGen
    /\ sentry = NoSentry

Init == InitOn(MethodInputs)

InitClass == InitOn(ClassInputs)

InitImports == InitOn(ImportInputs)

Extract ==
    /\ pc = "call"
    /\ \E r \in extract_file_info(text) :
          /\ info' = IF r.raised = "" THEN r.value ELSE info
          /\ exc' = r.raised
    /\ pc' = "done"
    /\ UNCHANGED <<text, calls, gen, sentry>>

Next == Extract

Spec == Init /\ [][Next]_vars

SpecClass == InitClass /\ [][Next]_vars

SpecImports == InitImports /\ [][Next]_vars

-----------------------------------------------------------------------------
(* Several tool invocations in flight, each with its own call of           *)
(* extract_file_info.  The function holds no await, so the event loop runs *)
(* each call to completion in one step; the calls complete in any order.   *)

CallIds == 1..NumCalls

CallInputs ==
    {"",
     "class A { void f() {} }",
     "import 'package:foo/a.dart'; import 'package:bar/b.dart';",
     "import 'package:foo/a.dart'; import 'package:bar/b.dart'; class A { void f() {} int g() {} }",
     "import 'package:foo/a.dart'; class B { B() {} set w(v) {} }",
     " void _h() { if (x) { int g() {"}

\* every call starts with an info of its own, built at line 68
NewCall(t) == [text |-> t, info |-> InitialInfo, exc |-> "", pc |-> "call"]

InitCalls ==
    /\ calls \in [CallIds -> {NewCall(t) : t \in CallInputs}]
    /\ text = ""
    /\ info = InitialInfo
    /\ exc = ""
    /\ pc = "idle"
    /\ gen = NoGen
    /\ sentry = NoSentry

\* every call reading the text of the first one
InputOf_First(c) == calls[1].text

\* the text a call works on is the one it was passed
InputOf(c) == calls[c].text

ExtractCall(c) ==
    /\ calls[c].pc = "call"
    /\ \E r \in extract_file_info(InputOf(c)) :
          calls' = [calls EXCEPT
                       ![c].info = IF r.raised = "" THEN r.value ELSE @,
                       ![c].exc  = r.raised,
                       ![c].pc   = "done"]
    /\ UNCHANGED <<text, info, exc, pc, gen, sentry>>

NextCalls == \E c \in CallIds : ExtractCall(c)

SpecCalls == InitCalls /\ [][NextCalls]_vars

-----------------------------------------------------------------------------
(* generate_unit_test(path, content): the prompt for one Dart file.        *)
(*                                                                         *)
(* The file system is the environment: fs.exists_abs and fs.exists_cwd are *)
(* the answers of the two os.path.exists calls, fs.read is the exception   *)
(* type open / read raises ("" for none) and fs.data is the file's text.   *)
(* The literal parts of PROMPT_TEMPLATE are Chinese in the source and are  *)
(* given here in English and shortened, without the backquotes around the *)
(* test script name; the fields and their order are those of the source.   *)

PROMPT_TEMPLATE ==
    <<[lit |-> "\nGenerate Flutter unit test code from:\n1. File name: ",
       field |-> "file_name"],
      [lit |-> "\n2. Class name: ", field |-> "class_name"],
      [lit |-> "\n3. Dependencies: ", field |-> "dependencies"],
      [lit |-> "\n4. Other information: ", field |-> "other_info"],
      [lit |-> "\n\nRequirements:\n7. Test script name ",
       field |-> "file_name"],
      [lit |-> "_test.dart\n", field |-> ""]>>

\* str.format with keyword arguments kw
RECURSIVE format(_, _)
format(tpl, kw) ==
    IF Len(tpl) = 0 THEN ""
    ELSE Head(tpl).lit
         \o (IF Head(tpl).field = "" THEN "" ELSE kw[Head(tpl).field])
         \o format(Tail(tpl), kw)

\* sep.join(xs)
RECURSIVE join(_, _)
join(sep, xs) ==
    IF Len(xs) = 0 THEN ""
    ELSE IF Len(xs) = 1 THEN xs[1]
    ELSE xs[1] \o sep \o join(sep, Tail(xs))

getcwd == "/srv"

os_path_join(a, p) ==
    IF startswith(p, "/") THEN p
    ELSE IF a = "" \/ CharAt(a, Len(a)) = "/" THEN a \o p
    ELSE a \o "/" \o p

\* for paths without "." and ".." components and without doubled slashes
os_path_abspath(p) ==
    LET q == os_path_join(getcwd, p)
    IN IF Len(q) > 1 /\ CharAt(q, Len(q)) = "/" THEN SubSeq(q, 1, Len(q) - 1)
       ELSE q

os_path_basename(p) ==
    LET cuts == {i \in 1..Len(p) : CharAt(p, i) = "/"}
    IN IF cuts = {} THEN p
       ELSE SubSeq(p, (CHOOSE i \in cuts : \A j \in cuts : j <= i) + 1, Len(p))

None == [none |-> TRUE, value |-> ""]

Some(v) == [none |-> FALSE, value |-> v]

TextContent(t) == [type |-> "text", text |-> t]

\* str(e) of the OSError raised by open
OSErrorMessage(type, abs_path) ==
    (IF type = "IsADirectoryError" THEN "[Errno 21] Is a directory: '"
     ELSE "[Errno 13] Permission denied: '") \o abs_path \o "'"

\* the file is looked up and read whether content is given or not
NeedsFile_Always(content) == TRUE

\* if file_content is None
NeedsFile(content) == content.none

\* the file system calls of lines 147-156, in order
FileOps(path, content, fs) ==
    IF ~NeedsFile(content) THEN <<>>
    ELSE <<[op |-> "exists", path |-> os_path_abspath(path)]>>
         \o (IF fs.exists_abs THEN <<>>
             ELSE <<[op |-> "exists",
                     path |-> os_path_abspath(os_path_join(getcwd, path))]>>)
         \o (IF fs.exists_abs \/ fs.exists_cwd
             THEN <<[op |-> "open",
                     path |-> IF fs.exists_abs THEN os_path_abspath(path)
                              ELSE os_path_abspath(os_path_join(getcwd, path))]>>
             ELSE <<>>)

Returned(t) == [exc |-> "", msg |-> "", text |-> t]

Raised(type, m) == [exc |-> type, msg |-> m, text |-> ""]

\* lines 160-174: the prompt for the extracted facts
RenderPrompt(path, inf) ==
    LET file_name  == os_path_basename(path)
        other_info == ("Methods: " \o join(", ", inf.methods) \o "\n")
                      \o ("Imports: " \o join(", ", inf.imports))
    IN format(PROMPT_TEMPLATE,
              [file_name    |-> file_name,
               class_name   |-> inf.class_name,
               dependencies |-> join(", ", inf.dependencies),
               other_info   |-> other_info])

\* the body of the try block: the outcomes it can end with
TryBody(path, content, fs) ==
    IF NeedsFile(content) /\ ~fs.exists_abs /\ ~fs.exists_cwd
    THEN {Raised("FileNotFoundError", "File not found: " \o path)}
    ELSE IF NeedsFile(content) /\ fs.read # ""
    THEN {Raised(fs.read,
                 OSErrorMessage(fs.read,
                                IF fs.exists_abs THEN os_path_abspath(path)
                                ELSE os_path_abspath(os_path_join(getcwd, path))))}
    ELSE LET file_content == IF NeedsFile(content) THEN fs.data
                             ELSE content.value
         IN {IF r.raised # "" THEN Raised(r.raised, "list index out of range")
             ELSE Returned(RenderPrompt(path, r.value)) :
               r \in extract_file_info(file_content)}

\* the exception types that are subclasses of Exception
ExceptionTypes ==
    {"FileNotFoundError", "PermissionError", "IsADirectoryError", "IndexError"}

\* except FileNotFoundError in place of except Exception
IsCaught_FileNotFound(type) == type = "FileNotFoundError"

\* except Exception
IsCaught(type) == type \in ExceptionTypes

\* the outcomes of the call: the list it returns, or the exception it raises
generate_unit_test(path, content, fs) ==
    {IF o.exc = "" THEN [raised |-> "", result |-> <<TextContent(o.text)>>]
     ELSE IF IsCaught(o.exc)
     THEN [raised |-> "",
           result |-> <<TextContent("Error generating unit test: " \o o.msg)>>]
     ELSE [raised |-> o.exc, result |-> <<>>] :
       o \in TryBody(path, content, fs)}

Paths == {"", "a.dart", "lib/foo.dart", "/abs/a.dart"}

FileTexts ==
    {"class A { void f() {} }",
     "import 'package:foo/a.dart'; import 'package:bar/b.dart'; class A { void f() {} int g() {} }"}

Contents == {None, Some(""), Some("import 'dart:io'; class C { C() {} }")}

FileSystems ==
    [exists_abs : BOOLEAN, exists_cwd : BOOLEAN,
     read : {"", "PermissionError", "IsADirectoryError"}, data : FileTexts]

InitGen ==
    /\ gen \in [path : Paths, content : Contents, fs : FileSystems,
                ops : {<<>>}, result : {<<>>}, raised : {""}, pc : {"call"}]
    /\ text = ""
    /\ info = InitialInfo
    /\ exc = ""
    /\ pc = "idle"
    /\ calls = NoCalls
    /\ sentry = NoSentry

GenerateUnitTest ==
    /\ gen # NoGen
    /\ gen.pc = "call"
    /\ \E o \in generate_unit_test(gen.path, gen.content, gen.fs) :
          gen' = [gen EXCEPT !.ops = FileOps(gen.path, gen.content, gen.fs),
                             !.result = o.result,
                             !.raised = o.raised,
                             !.pc = "done"]
    /\ UNCHANGED <<text, info, exc, pc, calls, sentry>>

NextGen == GenerateUnitTest

SpecGen == InitGen /\ [][NextGen]_vars

-----------------------------------------------------------------------------
(* The sentry-analyzer server (src/sentry-analyzer/src/main.py): the three *)
(* handlers and the list_organizations branch of handle_call_tool.  A call *)
(* suspends at each await of http_client.get; Sentry's answer, or the      *)
(* failure of the transport, is the environment's choice.                  *)

\* mcp.types.INVALID_PARAMS
INVALID_PARAMS == -32602

\* mcp.types.INTERNAL_ERROR
INTERNAL_ERROR == -32603

UnauthorizedMessage ==
    "Error: Unauthorized. Please check your authentication token."

\* an exception in flight: its type, the code it carries (the status of
\* the response for HTTPStatusError, the code of the ErrorData for
\* McpError, 0 otherwise) and str(e)
Exc(type, code, msg) == [type |-> type, code |-> code, msg |-> msg]

NoExc == Exc("", 0, "")

\* McpError(types.ErrorData(code=..., message=...)); str(e) is the message
McpError(code, message) == Exc("McpError", code, message)

\* the first part that follows a part "issues", 0 if there is none
IssuesPart(parts) ==
    LET hits == {i \in 1..(Len(parts) - 1) : parts[i] = "issues"}
    IN IF hits = {} THEN 0
       ELSE (CHOOSE i \in hits : \A j \in hits : i <= j) + 1

extract_issue_id(issue_id_or_url) ==
    IF issue_id_or_url = ""
    THEN [exc |-> Exc("SentryError", 0, "Missing issue_id_or_url argument"),
          value |-> ""]
    ELSE LET parts == split(issue_id_or_url, "/")
             k     == IssuesPart(parts)
         IN IF k = 0
            THEN [exc |-> Exc("SentryError", 0,
                              "Could not extract issue ID from URL: "
                                \o issue_id_or_url),
                  value |-> ""]
            ELSE [exc |-> NoExc, value |-> split(parts[k], "?")[1]]

Statuses == {200, 401, 403, 404, 500}

\* what response.json() holds: the fields the handler reads, something
\* without them, or no JSON at all
Bodies == {"ok", "incomplete", "malformed"}

Response(status, body) == [kind |-> "response", status |-> status, body |-> body]

\* httpx.ConnectError, httpx.TimeoutException
TransportError == [kind |-> "error", status |-> 0, body |-> ""]

Responses ==
    {Response(200, b) : b \in Bodies}
    \cup {Response(st, "malformed") : st \in Statuses \ {200}}
    \cup {TransportError}

ReasonPhrase(status) ==
    CASE status = 401 -> "401 Unauthorized"
      [] status = 403 -> "403 Forbidden"
      [] status = 404 -> "404 Not Found"
      [] status = 500 -> "500 Internal Server Error"
      [] OTHER -> "200 OK"

\* response.raise_for_status(); the URL in the message is the request's
raise_for_status(r, url) ==
    IF r.status >= 400
    THEN Exc("HTTPStatusError", r.status,
             (IF r.status >= 500 THEN "Server error '" ELSE "Client error '")
               \o ReasonPhrase(r.status) \o "' for url '" \o url \o "'")
    ELSE NoExc

\* response.json()
json(r) ==
    IF r.body = "malformed"
    THEN Exc("JSONDecodeError", 0, "Expecting value: line 1 column 1 (char 0)")
    ELSE NoExc

\* the first exception of a sequence of steps, NoExc if none raises
FirstExc(steps) ==
    LET hits == {i \in DOMAIN steps : steps[i] # NoExc}
    IN IF hits = {} THEN NoExc
       ELSE steps[CHOOSE i \in hits : \A j \in hits : i <= j]

\* the 401 test of a handler
Check401(r) == IF r.status = 401 THEN McpError(401, UnauthorizedMessage) ELSE NoExc

\* await http_client.get(...) raising, else the 401 test, raise_for_status
\* and json, in this order
Received(r, url) ==
    IF r.kind = "error" THEN Exc("ConnectError", 0, "All connection attempts failed")
    ELSE FirstExc(<<Check401(r), raise_for_status(r, url), json(r)>>)

\* the same for the latest-event request, which has no 401 test
ReceivedLatest(r, url) ==
    IF r.kind = "error" THEN Exc("ConnectError", 0, "All connection attempts failed")
    ELSE FirstExc(<<raise_for_status(r, url), json(r)>>)

\* d[key] on the parsed body
Subscript(body, key) ==
    IF body = "incomplete" THEN Exc("KeyError", 0, "'" \o key \o "'") ELSE NoExc

Handlers ==
    {"handle_sentry_issue", "handle_top_issues", "handle_list_projects",
     "list_organizations"}

FetchPrefix(handler) ==
    CASE handler = "handle_sentry_issue"  -> "Error fetching Sentry issue: "
      [] handler = "handle_top_issues"    -> "Error fetching top issues: "
      [] handler = "handle_list_projects" -> "Error fetching projects list: "
      [] OTHER -> ""

\* the except clauses of a handler: the exception its caller gets for the
\* exception e raised in its try block.  The list_organizations branch has
\* no try block.
Except(handler, e) ==
    IF handler = "list_organizations" THEN e
    ELSE IF handler = "handle_sentry_issue" /\ e.type = "SentryError"
    THEN McpError(INVALID_PARAMS, e.msg)
    ELSE IF e.type = "HTTPStatusError"
    THEN McpError(e.code, FetchPrefix(handler) \o e.msg)
    ELSE McpError(INTERNAL_ERROR, "An error occurred: " \o e.msg)

Raises(e) == [kind |-> "raise", exc |-> e, data |-> ""]

Returns(d) == [kind |-> "return", exc |-> NoExc, data |-> d]

Running == [kind |-> "", exc |-> NoExc, data |-> ""]

\* the outcome of a handler whose try block ends with e, or with data d
Ends(handler, e, d) == IF e # NoExc THEN Raises(Except(handler, e)) ELSE Returns(d)

IssueArgs ==
    {"https://sentry.io/organizations/o/issues/123/",
     "https://sentry.io/issues/456?project=1",
     "https://sentry.io/organizations/o/issues/",
     "https://sentry.io/organizations/o/issues",
     "12345"}

ProjectIds == {"p1", "p2"}

org_slug == "o"

\* the argument of a call: the issue URL, the project, or none
ArgsOf(handler) ==
    CASE handler = "handle_sentry_issue" -> IssueArgs
      [] handler = "handle_top_issues"   -> ProjectIds
      [] OTHER -> {""}

InitSentry ==
    /\ \E h \in Handlers : \E a \in ArgsOf(h) :
          sentry = [handler |-> h, arg |-> a, pc |-> "call", issue_id |-> "",
                    sent |-> <<>>, received |-> <<>>, outcome |-> Running]
    /\ text = ""
    /\ info = InitialInfo
    /\ exc = ""
    /\ pc = "idle"
    /\ calls = NoCalls
    /\ gen = NoGen

SentryFrame == UNCHANGED <<text, info, exc, pc, calls, gen>>

At(handler, where) ==
    /\ sentry # NoSentry
    /\ sentry.handler = handler
    /\ sentry.pc = where

\* a handler sends its request and suspends
Send(url) ==
    sentry' = [sentry EXCEPT !.sent = Append(@, url), !.pc = "await"]

\* a handler that has its one response ends
Finish(r, e, d) ==
    sentry' = [sentry EXCEPT !.received = Append(@, r),
                             !.outcome = Ends(sentry.handler, e, d),
                             !.pc = "done"]

\* handle_sentry_issue up to its first await
handle_sentry_issue_call ==
    /\ At("handle_sentry_issue", "call")
    /\ LET id == extract_issue_id(sentry.arg)
       IN IF id.exc # NoExc
          THEN sentry' = [sentry EXCEPT
                             !.outcome = Ends(sentry.handler, id.exc, ""),
                             !.pc = "done"]
          ELSE sentry' = [sentry EXCEPT
                             !.issue_id = id.value,
                             !.sent = <<"issues/" \o id.value \o "/">>,
                             !.pc = "await"]
    /\ SentryFrame

\* from the answer to the issue request to the second await
handle_sentry_issue_issue ==
    /\ At("handle_sentry_issue", "await")
    /\ Len(sentry.received) = 0
    /\ \E r \in Responses :
          LET e == Received(r, sentry.sent[1])
          IN IF e # NoExc THEN Finish(r, e, "")
             ELSE sentry' = [sentry EXCEPT
                    !.received = <<r>>,
                    !.sent = Append(@, "issues/" \o sentry.issue_id
                                         \o "/events/latest/")]
    /\ SentryFrame

\* from the answer to the latest-event request to the end
handle_sentry_issue_event ==
    /\ At("handle_sentry_issue", "await")
    /\ Len(sentry.received) = 1
    /\ \E r \in Responses :
          Finish(r,
                 FirstExc(<<ReceivedLatest(r, sentry.sent[2]),
                            Subscript(sentry.received[1].body, "title")>>),
                 "SentryIssueData")
    /\ SentryFrame

handle_top_issues_call ==
    /\ At("handle_top_issues", "call")
    /\ Send("projects/" \o org_slug \o "/" \o sentry.arg \o "/issues/")
    /\ SentryFrame

handle_top_issues_response ==
    /\ At("handle_top_issues", "await")
    /\ \E r \in Responses :
          Finish(r,
                 FirstExc(<<Received(r, sentry.sent[1]), Subscript(r.body, "id")>>),
                 "TopIssueData")
    /\ SentryFrame

handle_list_projects_call ==
    /\ At("handle_list_projects", "call")
    /\ Send("projects/")
    /\ SentryFrame

handle_list_projects_response ==
    /\ At("handle_list_projects", "await")
    /\ \E r \in Responses :
          Finish(r, Received(r, sentry.sent[1]), "ProjectListData")
    /\ SentryFrame

\* the list_organizations branch of handle_call_tool
list_organizations_call ==
    /\ At("list_organizations", "call")
    /\ Send("organizations/")
    /\ SentryFrame

list_organizations_response ==
    /\ At("list_organizations", "await")
    /\ \E r \in Responses :
          Finish(r,
                 FirstExc(<<Received(r, sentry.sent[1]), Subscript(r.body, "slug")>>),
                 "TextContent")
    /\ SentryFrame

NextSentry ==
    \/ handle_sentry_issue_call
    \/ handle_sentry_issue_issue
    \/ handle_sentry_issue_event
    \/ handle_top_issues_call
    \/ handle_top_issues_response
    \/ handle_list_projects_call
    \/ handle_list_projects_response
    \/ list_organizations_call
    \/ list_organizations_response

SpecSentry == InitSentry /\ [][NextSentry]_vars

-----------------------------------------------------------------------------
(* Properties. *)

Done == pc = "done"

Methods == Range(info.methods)

\* no anchored match of pattern p anywhere in s
Unmatched(p, s) == \A j \in 1..(Len(s) + 1) : ~Match(<<p>>, s, j, "").ok

\* s matches none of the patterns that are tried on every input
NothingMatches(s) ==
    \A p \in {import_pattern, class_pattern, regular_method, getter_pattern,
              setter_pattern, operator_pattern} : Unmatched(p, s)

\* C1: no returned method name starts with an underscore or is one of the
\* nine control-flow keywords, whichever family contributed it and also
\* when the class name starts with an underscore.
C1_NoPrivateNoKeyword ==
    Done => \A m \in Methods : ~startswith(m, "_") /\ m \notin exclude_keywords

\* C2: on the scenario text with class Foo, the result has class_name "Foo",
\* its methods include bar, baz, qux and "operator +", and exclude _hidden.
C2_ScenarioFoo ==
    (Done /\ text = ScenarioFoo) =>
        /\ info.class_name = "Foo"
        /\ {"bar", "baz", "qux", "operator +"} \subseteq Methods
        /\ "_hidden" \notin Methods

\* C3: on the scenario text with the const named constructor of Widget and
\* an assert initializer, the methods include "Widget.named".
C3_ScenarioWidget ==
    (Done /\ text = ScenarioWidget) => "Widget.named" \in Methods

\* C4: every call returns (no exception) a record with exactly the fields
\* class_name, methods, imports and dependencies; when no pattern matches
\* the text, class_name is empty and the three collections are empty.
C4_Total ==
    Done =>
        /\ exc = ""
        /\ DOMAIN info = {"class_name", "methods", "imports", "dependencies"}
        /\ NothingMatches(text) =>
              /\ info.class_name = ""
              /\ info.methods = <<>>
              /\ info.imports = <<>>
              /\ info.dependencies = <<>>

C4_Witness ==
    /\ Done
    /\ text # ""
    /\ NothingMatches(text)
    /\ exc = ""
    /\ info.class_name = ""
    /\ info.methods = <<>>

(* A class declaration at position i of s, stated without the matcher:     *)
(* the word class, whitespace, an identifier (a maximal run of word        *)
(* characters), then whitespace and extends, implements or with, or        *)
(* optional whitespace and an opening brace.                               *)
DeclNameStart(s, i) == i + 5 + RunLen(s, i + 5, ClsS)

DeclNameEnd(s, i) == DeclNameStart(s, i) + RunLen(s, DeclNameStart(s, i), ClsW)

DeclName(s, i) == SubSeq(s, DeclNameStart(s, i), DeclNameEnd(s, i) - 1)

IsClassDecl(s, i) ==
    LET e == DeclNameEnd(s, i)
        g == RunLen(s, e, ClsS)
    IN /\ StartsAt(s, i, "class")
       /\ DeclNameStart(s, i) > i + 5
       /\ e > DeclNameStart(s, i)
       /\ \/ g >= 1 /\ \E kw \in {"extends", "implements", "with"} :
                          StartsAt(s, e + g, kw)
          \/ StartsAt(s, e + g, "{")

ClassDecls(s) == {i \in 1..Len(s) : IsClassDecl(s, i)}

FirstDecl(s) == CHOOSE i \in ClassDecls(s) : \A j \in ClassDecls(s) : i <= j

\* C5: when the text has class declarations, class_name is the identifier
\* of the declaration at the least position, whatever declarations follow.
C5_FirstClassWins ==
    (Done /\ ClassDecls(text) # {}) =>
        info.class_name = DeclName(text, FirstDecl(text))

C5_Witness ==
    /\ Done
    /\ \E i \in ClassDecls(text) :
          /\ i > FirstDecl(text)
          /\ DeclName(text, i) # DeclName(text, FirstDecl(text))
    /\ info.class_name = DeclName(text, FirstDecl(text))

\* C6: when the text has no class declaration, class_name is the empty
\* string and every returned method name is a capture of the regular,
\* getter, setter or operator pattern (none comes from a constructor scan).
C6_NoClassNoName ==
    (Done /\ ClassDecls(text) = {}) =>
        /\ info.class_name = ""
        /\ Methods \subseteq
              Range(findall(regular_method, text))
              \cup Range(findall(getter_pattern, text))
              \cup Range(findall(setter_pattern, text))
              \cup {"operator " \o op : op \in Range(findall(operator_pattern, text))}

C6_Witness ==
    /\ Done
    /\ ClassDecls(text) = {}
    /\ Contains(text, "class")
    /\ Contains(text, " A() {")
    /\ info.class_name = ""
    /\ Methods # {}

(* An import directive at position i of s, stated without the matcher:     *)
(* the word import, whitespace, a quote, a non-empty path free of quotes,  *)
(* a quote and a semicolon.  With same the two quotes must be equal.       *)
QuoteChars == {"'", "\""}

DirQuote(s, i) == i + 6 + RunLen(s, i + 6, ClsS)

DirClose(s, i) == DirQuote(s, i) + 1 + RunLen(s, DirQuote(s, i) + 1, NoneOf(QuoteChars))

DirPath(s, i) == SubSeq(s, DirQuote(s, i) + 1, DirClose(s, i) - 1)

DirEnd(s, i) == DirClose(s, i) + 2

IsDirective(s, i, same) ==
    /\ StartsAt(s, i, "import")
    /\ DirQuote(s, i) > i + 6
    /\ DirQuote(s, i) <= Len(s)
    /\ CharAt(s, DirQuote(s, i)) \in QuoteChars
    /\ DirClose(s, i) > DirQuote(s, i) + 1
    /\ DirClose(s, i) <= Len(s)
    /\ CharAt(s, DirClose(s, i)) \in QuoteChars
    /\ StartsAt(s, DirClose(s, i) + 1, ";")
    /\ same => CharAt(s, DirQuote(s, i)) = CharAt(s, DirClose(s, i))

Least(D) == CHOOSE i \in D : \A j \in D : i <= j

\* the paths of the directives at the positions D, in text order
RECURSIVE PathsAt(_, _)
PathsAt(s, D) ==
    IF D = {} THEN <<>>
    ELSE <<DirPath(s, Least(D))>> \o PathsAt(s, D \ {Least(D)})

\* the paths of the directives met from position i on when each directive
\* that starts inside an earlier one is passed over
RECURSIVE PathsFrom(_, _)
PathsFrom(s, i) ==
    LET D == {j \in i..Len(s) : IsDirective(s, j, FALSE)} IN
    IF D = {} THEN <<>>
    ELSE <<DirPath(s, Least(D))>> \o PathsFrom(s, DirEnd(s, Least(D)))

\* C7 as stated: imports lists, in text order and with repetitions, the
\* path of every directive import '<path>'; or import "<path>"; of the text.
C7_OnePerDirective ==
    Done => info.imports = PathsAt(text, {i \in 1..Len(text) : IsDirective(text, i, TRUE)})

\* C7 as amended: imports lists, in text order and with repetitions, the
\* path of every directive found by a left-to-right scan that resumes after
\* each directive, where the closing quote need not equal the opening one.
C7_OnePerScannedDirective ==
    Done => info.imports = PathsFrom(text, 1)

C7_Witness ==
    /\ Done
    /\ Len(info.imports) = 3
    /\ info.imports[1] = info.imports[3]
    /\ info.imports[1] # info.imports[2]

\* C8 as stated: every returned path p occurs in the text as import 'p';
\* or as import "p"; with one space and equal quotes.
C8_RoundTripStrict ==
    Done => \A p \in Range(info.imports) :
                \/ Contains(text, "import '" \o p \o "';")
                \/ Contains(text, "import \"" \o p \o "\";")

\* C8 as amended: every returned path p occurs in the text after import,
\* one or more whitespace characters and a quote, and before a quote (either
\* of the two, not necessarily the opening one) and a semicolon.
C8_RoundTrip ==
    Done => \A p \in Range(info.imports) :
                \E i \in 1..Len(text) :
                    /\ StartsAt(text, i, "import")
                    /\ DirQuote(text, i) > i + 6
                    /\ \E q1 \in QuoteChars, q2 \in QuoteChars :
                          StartsAt(text, DirQuote(text, i), q1 \o p \o q2 \o ";")

C8_Witness ==
    /\ Done
    /\ Contains(text, "import\n\"dart:io\";")
    /\ Contains(text, "import 'a\";")
    /\ {"dart:io", "a"} \subseteq Range(info.imports)

(* The package of an import path, stated without split: the text after   *)
(* the first package: marker, cut before the first of the given stops     *)
(* that follows (the whole remainder when none follows).                   *)
AfterMarker(imp) ==
    SubSeq(imp, FindFrom(imp, "package:", 1) + 8, Len(imp))

CutBefore(str, stops) ==
    LET at == {FindFrom(str, st, 1) : st \in stops} \ {0} IN
    IF at = {} THEN str ELSE SubSeq(str, 1, Least(at) - 1)

\* the packages of the marked paths of imports, each once, in the order of
\* their first occurrence
RECURSIVE FirstSeen(_, _, _)
FirstSeen(imports, stops, seen) ==
    IF Len(imports) = 0 THEN seen
    ELSE LET imp == Head(imports)
             pkg == CutBefore(AfterMarker(imp), stops)
         IN FirstSeen(Tail(imports), stops,
                IF Contains(imp, "package:") /\ pkg \notin Range(seen)
                THEN Append(seen, pkg) ELSE seen)

\* C9 as stated: dependencies holds, once each and in first-seen order, the
\* text between the package: marker and the next slash of every marked path.
C9_DepsUpToSlash ==
    Done => info.dependencies = FirstSeen(info.imports, {"/"}, <<>>)

\* C9 as amended: dependencies holds, once each and in first-seen order, the
\* text between the first package: marker of every marked path and the next
\* slash or the next package: marker, whichever comes first.
C9_DepsUpToSlashOrMarker ==
    Done => info.dependencies = FirstSeen(info.imports, {"/", "package:"}, <<>>)

C9_Witness ==
    /\ Done
    /\ Len(info.imports) = 3
    /\ info.imports[1] = "package:foo/x.dart"
    /\ info.imports[3] = "package:foo/bar.dart"
    /\ info.dependencies = <<"foo", "a">>

HasMarker(p) == Contains(p, "package:")

\* C10: on the text import 'dart:async'; the call returns class_name "",
\* imports <<"dart:async">> and no dependencies; in general every import
\* path is listed, and the paths without the package: marker add nothing to
\* dependencies.
C10_UnmarkedImports ==
    Done =>
        /\ text = ScenarioAsync =>
              /\ exc = ""
              /\ info.class_name = ""
              /\ info.imports = <<"dart:async">>
              /\ info.dependencies = <<>>
        /\ exc = ""
        /\ info.dependencies =
              DependenciesOf(SelectSeq(info.imports, HasMarker)).value
        /\ (\A p \in Range(info.imports) : ~HasMarker(p)) =>
              info.dependencies = <<>>

C10_Witness ==
    /\ Done
    /\ text = ScenarioAsync
    /\ info.imports = <<"dart:async">>
    /\ info.dependencies = <<>>
    /\ exc = ""

(* Accessors and operator overloads in the text, stated without the       *)
(* matcher.  A keyword starts at a word boundary; a name is a maximal run  *)
(* of word characters, an operator symbol a maximal run of characters      *)
(* other than whitespace and the opening parenthesis.                      *)
AtWordStart(s, i) == i = 1 \/ CharAt(s, i - 1) \notin WordChars

\* position after the whitespace that follows a keyword of length n at i
AfterKeyword(s, i, n) == i + n + RunLen(s, i + n, ClsS)

\* position after optional whitespace from i
SkipSpace(s, i) == i + RunLen(s, i, ClsS)

\* (params) { from position i, after optional whitespace
ParamsAndBlockAt(s, i) ==
    LET open  == SkipSpace(s, i)
        close == open + 1 + RunLen(s, open + 1, NoneOf({")"}))
    IN /\ StartsAt(s, open, "(")
       /\ StartsAt(s, close, ")")
       /\ StartsAt(s, SkipSpace(s, close + 1), "{")

AccessorName(s, i) ==
    SubSeq(s, AfterKeyword(s, i, 3),
           AfterKeyword(s, i, 3) + RunLen(s, AfterKeyword(s, i, 3), ClsW) - 1)

AccessorNameEnd(s, i) == AfterKeyword(s, i, 3) + Len(AccessorName(s, i))

IsGetter(s, i) ==
    /\ StartsAt(s, i, "get")
    /\ AtWordStart(s, i)
    /\ AfterKeyword(s, i, 3) > i + 3
    /\ Len(AccessorName(s, i)) >= 1
    /\ \/ StartsAt(s, SkipSpace(s, AccessorNameEnd(s, i)), "=>")
       \/ StartsAt(s, SkipSpace(s, AccessorNameEnd(s, i)), "{")

IsSetter(s, i) ==
    /\ StartsAt(s, i, "set")
    /\ AtWordStart(s, i)
    /\ AfterKeyword(s, i, 3) > i + 3
    /\ Len(AccessorName(s, i)) >= 1
    /\ ParamsAndBlockAt(s, AccessorNameEnd(s, i))

PublicName(m) == ~startswith(m, "_") /\ m \notin exclude_keywords

\* C14: the name of every getter (get name => or get name {) and of every
\* setter (set name(params) {) of the text is among the returned methods,
\* unless it starts with an underscore or is a control-flow keyword.
C14_AccessorsCaptured ==
    Done => \A i \in 1..Len(text) :
                ((IsGetter(text, i) \/ IsSetter(text, i))
                    /\ PublicName(AccessorName(text, i)))
                => AccessorName(text, i) \in Methods

OperatorSymbol(s, i) ==
    SubSeq(s, AfterKeyword(s, i, 8),
           AfterKeyword(s, i, 8)
             + RunLen(s, AfterKeyword(s, i, 8),
                      [w |-> FALSE, s |-> TRUE, chars |-> {"("}, neg |-> TRUE]) - 1)

IsOperator(s, i) ==
    /\ StartsAt(s, i, "operator")
    /\ AtWordStart(s, i)
    /\ AfterKeyword(s, i, 8) > i + 8
    /\ Len(OperatorSymbol(s, i)) >= 1
    /\ ParamsAndBlockAt(s, AfterKeyword(s, i, 8) + Len(OperatorSymbol(s, i)))

\* C15: for every operator overload operator symbol(params) { of the text,
\* the string "operator " followed by exactly that symbol is among the
\* returned methods.
C15_OperatorsCaptured ==
    Done => \A i \in 1..Len(text) :
                IsOperator(text, i)
                => ("operator " \o OperatorSymbol(text, i)) \in Methods

\* the names the four families capture in s when the class name is cn
Captured(s, cn) ==
    Range(findall(regular_method, s))
    \cup (IF cn # "" THEN Range(findall(constructor_pattern(cn), s)) ELSE {})
    \cup Range(findall(getter_pattern, s))
    \cup Range(findall(setter_pattern, s))
    \cup {"operator " \o op : op \in Range(findall(operator_pattern, s))}

\* C16: the returned methods have no duplicate entry, and a name captured
\* by any family is absent from them only if it starts with an underscore
\* or is a control-flow keyword.
C16_MergedOnce ==
    Done =>
        /\ \A j \in DOMAIN info.methods, k \in DOMAIN info.methods :
              info.methods[j] = info.methods[k] => j = k
        /\ \A m \in Captured(text, info.class_name) :
              m \notin Methods => ~PublicName(m)

\* a setter, captured by the setter pattern and by the regular pattern
C16_Witness ==
    /\ Done
    /\ Contains(text, " set w(v) { set w(v) {")
    /\ Len(findall(setter_pattern, text)) = 2
    /\ Len(findall(regular_method, text)) >= 2
    /\ Len(SelectSeq(info.methods, LAMBDA m : m = "w")) = 1
    /\ "if" \in Captured(text, info.class_name)
    /\ "if" \notin Methods

CallDone(c) == calls[c].pc = "done"

\* C11: two completed calls of extract_file_info on the same text have the
\* same class_name, the same imports list, the same dependencies list and
\* the same set of method names.
C11_Deterministic ==
    \A c \in CallIds, d \in CallIds :
        (CallDone(c) /\ CallDone(d) /\ calls[c].text = calls[d].text)
        => /\ calls[c].exc = calls[d].exc
           /\ calls[c].info.class_name = calls[d].info.class_name
           /\ calls[c].info.imports = calls[d].info.imports
           /\ calls[c].info.dependencies = calls[d].info.dependencies
           /\ Range(calls[c].info.methods) = Range(calls[d].info.methods)

\* two calls on one text with two dependencies, methods in different orders
C11_Witness ==
    \E c \in CallIds, d \in CallIds :
        /\ CallDone(c) /\ CallDone(d)
        /\ c # d
        /\ calls[c].text = calls[d].text
        /\ calls[c].info.methods # calls[d].info.methods
        /\ Len(calls[c].info.dependencies) = 2

\* the outcomes of a call running alone on text t
Alone(t) == extract_file_info(t)

\* C12: every step of interleaved extraction calls is the step of one call;
\* it gives that call an outcome of the call running alone on its own text,
\* leaves the text as it was, and leaves every other call as it was.
C12_NoInteraction ==
    [][\E c \in CallIds :
          /\ \A d \in CallIds \ {c} : calls'[d] = calls[d]
          /\ calls'[c].text = calls[c].text
          /\ \E r \in Alone(calls[c].text) :
                /\ calls'[c].exc = r.raised
                /\ r.raised = "" => calls'[c].info = r.value]_vars

\* two calls on different texts, both completed, with different results
C12_Witness ==
    \E c \in CallIds, d \in CallIds :
        /\ CallDone(c) /\ CallDone(d)
        /\ calls[c].text # calls[d].text
        /\ calls[c].info.class_name = "A"
        /\ calls[d].info.class_name = "B"
        /\ calls[d].info.dependencies = <<"foo">>

GenDone == gen.pc = "done"

GenText == gen.result[1].text

\* a step of the call fails: no content, and the file is not found or
\* cannot be read
StepFails ==
    /\ gen.content.none
    /\ \/ ~gen.fs.exists_abs /\ ~gen.fs.exists_cwd
       \/ gen.fs.read # ""

\* C13: generate_unit_test raises nothing and returns one text item; when
\* a step fails the text starts with "Error generating unit test: ", and
\* otherwise it is the rendered prompt, also for a source with no class
\* and no method.
C13_NeverRaises ==
    GenDone =>
        /\ gen.raised = ""
        /\ Len(gen.result) = 1
        /\ gen.result[1].type = "text"
        /\ StepFails => startswith(GenText, "Error generating unit test: ")
        /\ ~StepFails => startswith(GenText, PROMPT_TEMPLATE[1].lit)
        /\ gen.content = Some("") => GenText = RenderPrompt(gen.path, InitialInfo)

\* no content, and the path exists neither as given nor under the working
\* directory
C13_Witness ==
    /\ GenDone
    /\ gen.content = None
    /\ gen.path = "lib/foo.dart"
    /\ ~gen.fs.exists_abs /\ ~gen.fs.exists_cwd
    /\ gen.raised = ""
    /\ gen.result =
          <<TextContent("Error generating unit test: File not found: lib/foo.dart")>>

SentryDone == sentry.pc = "done"

\* Sentry answered the first request of the call with status 401
Answered401 ==
    /\ Len(sentry.received) >= 1
    /\ sentry.received[1].kind = "response"
    /\ sentry.received[1].status = 401

\* C18: when Sentry answers the request of handle_sentry_issue,
\* handle_top_issues or handle_list_projects with status 401, the caller of
\* the handler gets an McpError with code 401 and the message "Error:
\* Unauthorized. Please check your authentication token.", as the caller
\* of the list_organizations branch does.
C18_Unauthorized401 ==
    (SentryDone /\ Answered401)
    => sentry.outcome = Raises(McpError(401, UnauthorizedMessage))

\* the argument holds an issue ID: a non-empty part after a part "issues",
\* up to a question mark
HoldsIssueId(arg) ==
    LET parts == split(arg, "/")
    IN \E i \in 1..(Len(parts) - 1) :
          /\ parts[i] = "issues"
          /\ \A j \in 1..(i - 1) : parts[j] # "issues"
          /\ ~startswith(parts[i + 1] \o "?", "?")

\* the answer was a response with a status below 400
Succeeded(r) == r.kind = "response" /\ r.status < 400

\* the order of the requests and the end of the call, for an argument the
\* call got an issue ID from
RequestsOrdered ==
    /\ Len(sentry.sent) <= 2
    /\ Len(sentry.sent) = 2
       => Len(sentry.received) >= 1 /\ Succeeded(sentry.received[1])
    /\ sentry.outcome.kind = "return"
       => /\ Len(sentry.sent) = 2 /\ Len(sentry.received) = 2
          /\ Succeeded(sentry.received[1]) /\ Succeeded(sentry.received[2])
          /\ sentry.outcome.data = "SentryIssueData"
    /\ (SentryDone /\ sentry.outcome.kind # "return")
       => /\ sentry.outcome.kind = "raise"
          /\ sentry.outcome.exc.type = "McpError"
          /\ sentry.outcome.data = ""

\* C19: handle_sentry_issue sends no request when the argument holds no
\* issue ID, sends the latest-event request only after the issue request
\* was answered with a non-error status, returns a SentryIssueData only
\* after both requests succeeded, and in every other run ends by raising
\* an McpError, with no result.
C19_RequestsGated ==
    sentry.handler = "handle_sentry_issue"
    => /\ ~HoldsIssueId(sentry.arg) => sentry.sent = <<>>
       /\ RequestsOrdered

====
